---- MODULE Spec2Model ----
(***************************************************************************)
(* directoutput-libusb: the device registry (devices/mod.rs), the Saitek   *)
(* FIP session and its wire protocol (devices/saitek_fip_lcd.rs).          *)
(*                                                                         *)
(* Threads: the libusb event thread (hotplug callbacks), one worker thread *)
(* per session (handshake), and caller threads using the State interface   *)
(* and the ManagedDisplay handles it returns.  The USB bus and the device  *)
(* firmware are the environment.                                           *)
(***************************************************************************)
EXTENDS Integers, Sequences, FiniteSets, TLC

\* ---- bounds of the model ----
NumAddrs == 2
MaxDevices == 1
NumCallers == 2
MaxReq == 3
NumObservers == 2
ShimDevices == 2
ShimMaxReq == 2

\* ---- program constants ----
FolderRemoved == 2
SaveFile == 3
SetImageFile == 4
SetImage == 6
DeleteFile == 7
StartServer == 9
SomeFactoryModeRequest == 10
ClearImage == 19
SetLed == 24
MaxDataSize == 524288
ImageSize == 230400

Addrs == 1..NumAddrs
Callers == 1..NumCallers

\* u32 values a device may put into a status field of a response
StatusVals == {0, 1}
\* (header_error, header_info, request_error, request_info) of the responses
\* a device sends
DeviceStatuses == StatusVals \X StatusVals \X StatusVals \X StatusVals
\* data_size values a device may declare in a response
DataSizes == {0, 8, MaxDataSize - 1, MaxDataSize, MaxDataSize + 1}
\* what kind of USB device was plugged in
DevKinds == {"fip", "other"}

Ops == {"set_image_data", "set_led", "clear_image", "save_file",
        "display_file", "delete_file", "serial_number", "device_type_uuid"}
FrameOps == Ops \ {"serial_number", "device_type_uuid"}
\* arguments callers pass: (page, index, value-or-file)
CallArgs == {<<0, 1, 1>>, <<2, 5, 1>>}
\* byte lengths of the streams handed to save_file
SaveLens == {0, 5}

VARIABLES
    devState,    \* physical device: "absent" | "attached" | "detached"
    devAddr,     \* (bus, device) address of each plugged device, 0 before
    devKind,     \* descriptor class of each plugged device
    events,      \* hotplug events libusb has queued for the event thread
    evpc,        \* position of the event thread inside a hotplug callback
    evDev,       \* the device the running callback was called with
    handlers,    \* State.display_hotplug_handlers: number of boxed observers
    notified,    \* calls the running callback has made to the observers
    displays,    \* State.displays: address -> session (0 = no entry)
    int,         \* UsbSaitekFipLcd.int content: "None" | "Some"
    poisoned,    \* the int mutex was poisoned by a panic under the guard
    lockHolder,  \* caller holding the int mutex (0 = free)
    wpc,         \* position of each session's worker thread
    probeResp,   \* the worker's probe response, while it decides
    pipe,        \* replies (and unread payload) pending on the IN endpoint
    reqSeq,      \* number of complete requests the device has received
    pc,          \* position of each caller thread
    handle,      \* Arc<dyn ManagedDisplay> each caller holds (0 = none)
    op,          \* operation the caller is running
    sent,        \* the control packet the caller wrote to the OUT endpoint
    myTag,       \* sequence number of the request the caller wrote
    resp,        \* the response frame transmit returned
    respTag,     \* which request the frame returned was the reply to
    result,      \* outcome of the caller's last operation
    enumIdx,     \* display_addrs: addresses already visited
    enumRes,     \* display_addrs: addresses collected so far
    codecPc,     \* conversion runs: which value is at hand ("off" in the program runs)
    codecIn,     \* conversion runs: the value converted
    codecMid,    \* conversion runs: its encoded form
    codecOut,    \* conversion runs: the value decoded from the encoded form
    registry,    \* the State init() returned: "live" | "dropped"
    seen         \* what each observer has been told is present (hotplug runs)

\* the device slots of the run
Devs == DOMAIN devState

envVars == <<devState, devAddr, devKind, events>>
evVars == <<evpc, evDev, handlers, notified>>
sessVars == <<int, poisoned, lockHolder>>
workVars == <<wpc, probeResp>>
busVars == <<pipe, reqSeq>>
callVars == <<pc, handle, op, sent, myTag, resp, respTag, result>>
enumVars == <<enumIdx, enumRes>>
codecVars == <<codecPc, codecIn, codecMid, codecOut>>
libVars == <<registry, seen>>
vars == <<envVars, evVars, displays, sessVars, workVars, busVars, callVars, enumVars, codecVars, libVars>>

\* ---------------------------------------------------------------------
\* Protocol codec (ControlPacket)
\* ---------------------------------------------------------------------

\* ControlPacket::new
NewPacket(request) ==
    [server_id |-> 0, page |-> 0, data_size |-> 0, header_error |-> 0,
     header_info |-> 0, request |-> request, param_1 |-> 0, param_2 |-> 0,
     param_3 |-> 0, request_error |-> 0, request_info |-> 0]

\* ControlPacket::set_data_size (every length of the model fits a u32)
set_data_size(p, value) == [p EXCEPT !.data_size = value]

\* variant: only the header half is looked at
has_error_HeaderOnly(p) == p.header_error > 0

\* ControlPacket::has_error
has_error(p) == p.header_error > 0 \/ p.request_error > 0

NoPacket == NewPacket(0)
NoReq == [packet |-> NoPacket, len |-> 0, data |-> FALSE]

\* The request each ManagedDisplay operation builds: the packet, whether a
\* payload is passed to transmit (Some/None) and the payload's length.
BuildRequest(o, page, index, value, len) ==
    CASE o = "set_image_data" ->
           [packet |-> set_data_size([NewPacket(SetImage) EXCEPT !.page = page], ImageSize),
            len |-> ImageSize, data |-> TRUE]
      [] o = "set_led" ->
           [packet |-> [NewPacket(SetLed) EXCEPT !.param_1 = page, !.param_2 = index,
                                                  !.param_3 = value],
            len |-> 0, data |-> FALSE]
      [] o = "clear_image" ->
           [packet |-> [NewPacket(ClearImage) EXCEPT !.page = page],
            len |-> 0, data |-> FALSE]
      [] o = "save_file" ->
           [packet |-> set_data_size([NewPacket(SaveFile) EXCEPT !.param_1 = page,
                                                                  !.param_3 = value], len),
            len |-> len, data |-> TRUE]
      [] o = "display_file" ->
           [packet |-> [NewPacket(SaveFile) EXCEPT !.param_1 = page, !.param_2 = index,
                                                    !.param_3 = value],
            len |-> 0, data |-> FALSE]
      [] o = "delete_file" ->
           [packet |-> [NewPacket(SaveFile) EXCEPT !.param_1 = page, !.param_3 = value],
            len |-> 0, data |-> FALSE]
      [] OTHER -> NoReq

\* The response frames a device may send (fields the driver never reads
\* are left zero)
ResponseFrames ==
    { [NewPacket(0) EXCEPT !.header_error = st[1], !.header_info = st[2],
                           !.request_error = st[3], !.request_info = st[4],
                           !.data_size = ds] :
        st \in DeviceStatuses, ds \in DataSizes }

\* ---------------------------------------------------------------------
\* Shared helpers
\* ---------------------------------------------------------------------

\* ManagedDisplay::ready once the int mutex has been acquired
ready(s) == ~poisoned[s] /\ int[s] = "Some"

\* threads inside State::display_addrs hold the displays read lock
Readers == {c \in Callers : pc[c] = "enum"}

\* strong references to a session: the registry entry, handles callers hold
\* and the local `display` of a running device_arrived
Alive(s) ==
    \/ \E a \in Addrs : displays[a] = s
    \/ \E c \in Callers : handle[c] = s
    \/ (evpc = "arr_insert" /\ evDev = s)
    \/ wpc[s] \in {"opened", "probe_written", "probe_read", "commit"}

\* An item pending on the IN endpoint is the sequence number of the request
\* it replies to, or Leftover: payload bytes a previous read left behind
Leftover == 0

\* the state after devices::init() with room for the device slots D
InitWith(D) ==
    /\ devState = [d \in D |-> "absent"]
    /\ devAddr = [d \in D |-> 0]
    /\ devKind = [d \in D |-> "fip"]
    /\ events = <<>>
    /\ evpc = "idle"
    /\ evDev = 0
    /\ handlers = 0
    /\ notified = <<>>
    /\ displays = [a \in Addrs |-> 0]
    /\ int = [d \in D |-> "None"]
    /\ poisoned = [d \in D |-> FALSE]
    /\ lockHolder = [d \in D |-> 0]
    /\ wpc = [d \in D |-> "none"]
    /\ probeResp = [d \in D |-> NoPacket]
    /\ pipe = [d \in D |-> <<>>]
    /\ reqSeq = [d \in D |-> 0]
    /\ pc = [c \in Callers |-> "idle"]
    /\ handle = [c \in Callers |-> 0]
    /\ op = [c \in Callers |-> "none"]
    /\ sent = [c \in Callers |-> NoPacket]
    /\ myTag = [c \in Callers |-> 0]
    /\ resp = [c \in Callers |-> NoPacket]
    /\ respTag = [c \in Callers |-> 0]
    /\ result = [c \in Callers |-> "none"]
    /\ enumIdx = [c \in Callers |-> 0]
    /\ enumRes = [c \in Callers |-> {}]
    /\ registry = "live"
    /\ seen = [h \in 1..NumObservers |-> {}]

\* no conversion run
CodecOff ==
    /\ codecPc = "off"
    /\ codecIn = <<>>
    /\ codecMid = <<>>
    /\ codecOut = <<>>

Init == InitWith(1..MaxDevices) /\ CodecOff

\* ---------------------------------------------------------------------
\* Environment: the USB bus
\* ---------------------------------------------------------------------

\* the worker thread of s has not started or has ended
WorkerOver(s) == wpc[s] \in {"none", "exit", "panicked", "factory", "panic_poison", "done"}

\* Slot d holds nothing any more: its device is unplugged, libusb has
\* delivered its events, its session was dropped and its worker has ended.
Vacant(d) ==
    \/ devState[d] = "absent"
    \/ /\ devState[d] = "detached"
       /\ \A i \in 1..Len(events) : events[i].dev # d
       /\ evDev # d
       /\ ~Alive(d)
       /\ WorkerOver(d)

\* a device is plugged in at a free address; libusb queues the arrival
Attach(a, k) ==
    /\ \E d \in Devs :
         /\ Vacant(d)
         /\ \A e \in Devs : e < d => ~Vacant(e)
         /\ \A e \in Devs : devState[e] = "attached" => devAddr[e] # a
         /\ devState' = [devState EXCEPT ![d] = "attached"]
         /\ devAddr' = [devAddr EXCEPT ![d] = a]
         /\ devKind' = [devKind EXCEPT ![d] = k]
         /\ events' = Append(events, [kind |-> "arrived", dev |-> d])
         /\ int' = [int EXCEPT ![d] = "None"]
         /\ poisoned' = [poisoned EXCEPT ![d] = FALSE]
         /\ wpc' = [wpc EXCEPT ![d] = "none"]
         /\ pipe' = [pipe EXCEPT ![d] = <<>>]
         /\ reqSeq' = [reqSeq EXCEPT ![d] = 0]
    /\ UNCHANGED <<evVars, displays, lockHolder, probeResp, callVars, enumVars, codecVars, libVars>>

\* a device is unplugged; libusb queues the departure
Detach(d) ==
    /\ devState[d] = "attached"
    /\ devState' = [devState EXCEPT ![d] = "detached"]
    /\ events' = Append(events, [kind |-> "left", dev |-> d])
    /\ UNCHANGED <<devAddr, devKind, evVars, displays, sessVars, workVars, busVars,
                   callVars, enumVars, codecVars, libVars>>

\* ---------------------------------------------------------------------
\* Event thread: UsbHotplugHandler
\* ---------------------------------------------------------------------

\* device_arrived up to new_from_libusb: descriptor read (a failure is logged
\* and the device skipped), VID/PID match, session construction, worker spawn
EvArrived ==
    /\ evpc = "idle"
    /\ events # <<>>
    /\ Head(events).kind = "arrived"
    /\ LET d == Head(events).dev IN
         /\ events' = Tail(events)
         /\ \/ /\ devKind[d] = "fip"
               /\ evpc' = "arr_insert"
               /\ evDev' = d
               /\ wpc' = [wpc EXCEPT ![d] = "spawned"]
            \/ UNCHANGED <<evpc, evDev, wpc>>
    /\ UNCHANGED <<devState, devAddr, devKind, handlers, notified, displays, sessVars, probeResp, busVars,
                   callVars, enumVars, codecVars, libVars>>

\* device_arrived: displays.insert(addr, display) under the write lock
InsertDisplay(a, s) == [displays EXCEPT ![a] = s]

\* Weak::upgrade of the handler's back-references to State.displays and
\* State.display_hotplug_handlers succeeds
RegistryLive == registry = "live"

EvInsert ==
    /\ evpc = "arr_insert"
    /\ IF RegistryLive
         THEN /\ Readers = {}
              /\ displays' = InsertDisplay(devAddr[evDev], evDev)
              /\ evpc' = "arr_notify"
         ELSE /\ evpc' = "ev_return"
              /\ UNCHANGED displays
    /\ UNCHANGED <<envVars, evDev, handlers, notified, sessVars, workVars, busVars,
                   callVars, enumVars, codecVars, libVars>>

\* variant: the vector is walked from its end
NotifyOrder_Reversed(n) == [i \in 1..n |-> n + 1 - i]

\* handlers.iter_mut(): the observers in the order they were pushed
NotifyOrder(n) == [i \in 1..n |-> i]

\* variant: no observer is called
Notify_Nobody(kind, a) == <<>>

\* for_each(|handler| handler.display_arrived(addr) / display_left(addr))
Notify(kind, a) ==
    LET order == NotifyOrder(handlers) IN
    [i \in 1..handlers |-> [h |-> order[i], kind |-> kind, addr |-> a]]

\* device_arrived: the hotplug handlers are told display_arrived(addr)
EvNotifyArrived ==
    /\ evpc = "arr_notify"
    /\ notified' = IF RegistryLive THEN Notify("arrived", devAddr[evDev]) ELSE <<>>
    /\ evpc' = "ev_return"
    /\ UNCHANGED <<envVars, evDev, handlers, displays, sessVars, workVars, busVars,
                   callVars, enumVars, codecVars, libVars>>

\* variant: the entry is left in the map
RemoveDisplay_Keep(a) == displays

\* device_left: displays.remove(&addr) under the write lock
RemoveDisplay(a) == [displays EXCEPT ![a] = 0]

EvLeft ==
    /\ evpc = "idle"
    /\ events # <<>>
    /\ Head(events).kind = "left"
    /\ RegistryLive => Readers = {}
    /\ LET d == Head(events).dev
           a == devAddr[d] IN
         /\ events' = Tail(events)
         /\ displays' = IF RegistryLive THEN RemoveDisplay(a) ELSE displays
         /\ IF displays[a] = 0 \/ ~RegistryLive
              THEN UNCHANGED <<evpc, evDev>>
              ELSE evpc' = "left_notify" /\ evDev' = d
    /\ UNCHANGED <<devState, devAddr, devKind, handlers, notified, sessVars, workVars,
                   busVars, callVars, enumVars, codecVars, libVars>>

\* device_left: the hotplug handlers are told display_left(addr)
EvNotifyLeft ==
    /\ evpc = "left_notify"
    /\ notified' = IF RegistryLive THEN Notify("left", devAddr[evDev]) ELSE <<>>
    /\ evpc' = "ev_return"
    /\ UNCHANGED <<envVars, evDev, handlers, displays, sessVars, workVars, busVars,
                   callVars, enumVars, codecVars, libVars>>

\* the hotplug callback returns to libusb's handle_events
EvReturn ==
    /\ evpc = "ev_return"
    /\ evpc' = "idle"
    /\ evDev' = 0
    /\ notified' = <<>>
    /\ UNCHANGED <<envVars, handlers, displays, sessVars, workVars, busVars, callVars,
                   enumVars, codecVars, libVars>>

\* State::add_hotplug_handler: push under the handlers write lock
add_hotplug_handler ==
    /\ RegistryLive
    /\ handlers < NumObservers
    /\ handlers' = handlers + 1
    /\ UNCHANGED <<envVars, evpc, evDev, notified, displays, sessVars, workVars, busVars,
                   callVars, enumVars, codecVars, libVars>>

\* ---------------------------------------------------------------------
\* Bulk transport of one device (DeviceHandlerWrapper, the device firmware)
\* ---------------------------------------------------------------------

\* UsbSaitekFipLcdInt::write: what a write of request r to device s can do.
\* A complete request makes the device queue its reply.
WriteOutcomes(s, r) ==
    IF (IF r.data THEN r.len ELSE 0) # r.packet.data_size
      THEN {[kind |-> "panic", pipe |-> pipe[s], seq |-> reqSeq[s]]}
      ELSE {[kind |-> "err", pipe |-> pipe[s], seq |-> reqSeq[s]]} \cup
           IF devState[s] = "attached"
             THEN {[kind |-> "ok",
                    pipe |-> Append(pipe[s], reqSeq[s] + 1),
                    seq |-> reqSeq[s] + 1]}
             ELSE {}

\* UsbSaitekFipLcdInt::read once the 44 bytes of frame f, the reply to
\* request h, have been read from device s: no payload read when data_size
\* is 0; a panic when it is 512 KiB or more; otherwise a payload read into a
\* Vec of length 0, which reads nothing (the payload is dropped by the
\* transfer or stays pending) and ends in an error
ReadFrame(s, f, h, rest) ==
    IF f.data_size = 0
      THEN {[kind |-> "ok", frame |-> f, tag |-> h, pipe |-> rest]}
    ELSE IF f.data_size >= MaxDataSize
      THEN {[kind |-> "panic", frame |-> NoPacket, tag |-> 0, pipe |-> rest]}
    ELSE {[kind |-> "err", frame |-> NoPacket, tag |-> 0, pipe |-> rest],
          [kind |-> "err", frame |-> NoPacket, tag |-> 0,
           pipe |-> <<Leftover>> \o rest]}

\* UsbSaitekFipLcdInt::read: what a read from device s can do.  A frame
\* read that times out leaves the reply pending.
ReadOutcomes(s) ==
    {[kind |-> "err", frame |-> NoPacket, tag |-> 0, pipe |-> pipe[s]]} \cup
    IF devState[s] = "attached" /\ pipe[s] # <<>>
      THEN LET h == Head(pipe[s])
               rest == Tail(pipe[s]) IN
           {[kind |-> "err", frame |-> NoPacket, tag |-> 0, pipe |-> rest]} \cup
           IF h = Leftover
             THEN {}
             ELSE UNION { ReadFrame(s, f, h, rest) : f \in ResponseFrames }
      ELSE {}

\* ---------------------------------------------------------------------
\* Worker thread of a session: UsbSaitekFipLcd::_thread_target
\* ---------------------------------------------------------------------

\* variant: a failed expect takes every worker thread down
WorkerPanic_All(s) == wpc' = [t \in Devs |-> "panicked"]

\* a failed `.expect(..)` on the worker thread: the panic unwinds that thread
\* only
WorkerPanic(s) == wpc' = [wpc EXCEPT ![s] = "panicked"]

\* Weak::upgrade, then UsbSaitekFipLcdInt::new (open, claim, serial number,
\* endpoints); every failure in new is a panic of the worker
\* variant: a worker that failed is started again
Spawned_Again(s) == wpc[s] \in {"spawned", "panicked", "factory"}

\* the thread new_from_libusb spawned runs _thread_target once
Spawned(s) == wpc[s] = "spawned"

WOpen(s) ==
    /\ Spawned(s)
    /\ IF ~Alive(s)
         THEN wpc' = [wpc EXCEPT ![s] = "exit"]
         ELSE \/ devState[s] = "attached" /\ wpc' = [wpc EXCEPT ![s] = "opened"]
              \/ WorkerPanic(s)
    /\ UNCHANGED <<envVars, evVars, displays, sessVars, probeResp, busVars, callVars,
                   enumVars, codecVars, libVars>>

\* transcieve(ControlPacket::new(SomeFactoryModeRequest), None): the write
WWrite(s) ==
    /\ wpc[s] = "opened"
    /\ \E w \in WriteOutcomes(s, [packet |-> NewPacket(SomeFactoryModeRequest),
                                  len |-> 0, data |-> FALSE]) :
         IF w.kind = "ok"
           THEN /\ wpc' = [wpc EXCEPT ![s] = "probe_written"]
                /\ pipe' = [pipe EXCEPT ![s] = w.pipe]
                /\ reqSeq' = [reqSeq EXCEPT ![s] = w.seq]
           ELSE /\ WorkerPanic(s)
                /\ UNCHANGED <<pipe, reqSeq>>
    /\ UNCHANGED <<envVars, evVars, displays, sessVars, probeResp, callVars, enumVars, codecVars, libVars>>

\* the read of the probe response; an error is a panic of the worker, which
\* drops the device handle it opened
WRead(s) ==
    /\ wpc[s] = "probe_written"
    /\ \E r \in ReadOutcomes(s) :
         IF r.kind = "ok"
           THEN /\ wpc' = [wpc EXCEPT ![s] = "probe_read"]
                /\ probeResp' = [probeResp EXCEPT ![s] = r.frame]
                /\ pipe' = [pipe EXCEPT ![s] = r.pipe]
           ELSE /\ WorkerPanic(s)
                /\ pipe' = [pipe EXCEPT ![s] = <<>>]
                /\ UNCHANGED probeResp
    /\ UNCHANGED <<envVars, evVars, displays, sessVars, reqSeq, callVars, enumVars, codecVars, libVars>>

\* variant: the factory-mode check is dropped
FactoryMode_Never(p) == FALSE

\* `if !response.has_error() { return }`: the device is in factory mode
FactoryMode(p) == ~has_error(p)

WDecide(s) ==
    /\ wpc[s] = "probe_read"
    /\ IF FactoryMode(probeResp[s])
         THEN /\ wpc' = [wpc EXCEPT ![s] = "factory"]
              /\ pipe' = [pipe EXCEPT ![s] = <<>>]
         ELSE /\ wpc' = [wpc EXCEPT ![s] = "commit"]
              /\ UNCHANGED pipe
    /\ probeResp' = [probeResp EXCEPT ![s] = NoPacket]
    /\ UNCHANGED <<envVars, evVars, displays, sessVars, reqSeq, callVars, enumVars, codecVars, libVars>>

\* device.int.lock().expect("Device is poisoned").replace(device_int)
WCommit(s) ==
    /\ wpc[s] = "commit"
    /\ lockHolder[s] = 0
    /\ IF poisoned[s]
         THEN /\ wpc' = [wpc EXCEPT ![s] = "panic_poison"]
              /\ pipe' = [pipe EXCEPT ![s] = <<>>]
              /\ UNCHANGED int
         ELSE /\ wpc' = [wpc EXCEPT ![s] = "done"]
              /\ int' = [int EXCEPT ![s] = "Some"]
              /\ UNCHANGED pipe
    /\ UNCHANGED <<envVars, evVars, displays, poisoned, lockHolder, probeResp, reqSeq,
                   callVars, enumVars, codecVars, libVars>>

\* ---------------------------------------------------------------------
\* Caller threads: State and the ManagedDisplay operations
\* ---------------------------------------------------------------------

\* State::display_by_addr: a clone of the Arc in the map, or None
display_by_addr(a) == displays[a]

Lookup(c, a) ==
    /\ pc[c] = "idle"
    /\ handle' = [handle EXCEPT ![c] = display_by_addr(a)]
    /\ UNCHANGED <<envVars, evVars, displays, sessVars, workVars, busVars, pc, op, sent,
                   myTag, resp, respTag, result, enumVars, codecVars, libVars>>

\* the caller drops the handle it holds
DropHandle(c) ==
    /\ pc[c] = "idle"
    /\ handle[c] # 0
    /\ handle' = [handle EXCEPT ![c] = 0]
    /\ UNCHANGED <<envVars, evVars, displays, sessVars, workVars, busVars, pc, op, sent,
                   myTag, resp, respTag, result, enumVars, codecVars, libVars>>

\* State::display_addrs: take the displays read lock
EnumStart(c) ==
    /\ pc[c] = "idle"
    /\ pc' = [pc EXCEPT ![c] = "enum"]
    /\ enumIdx' = [enumIdx EXCEPT ![c] = 0]
    /\ enumRes' = [enumRes EXCEPT ![c] = {}]
    /\ UNCHANGED <<envVars, evVars, displays, sessVars, workVars, busVars, handle, op,
                   sent, myTag, resp, respTag, result, codecVars, libVars>>

\* variant: the filter keeps every entry
Listed_NoFilter(s) == TRUE

\* State::display_addrs: the filter_map closure, `if kv.1.ready()`
Listed(s) == ready(s)

\* State::display_addrs: one entry of the map; ready() waits for the int mutex
EnumStep(c) ==
    /\ pc[c] = "enum"
    /\ enumIdx[c] < NumAddrs
    /\ LET a == enumIdx[c] + 1
           s == displays[a] IN
         /\ s # 0 => lockHolder[s] = 0
         /\ enumRes' = [enumRes EXCEPT ![c] = IF s # 0 /\ Listed(s) THEN @ \cup {a} ELSE @]
         /\ enumIdx' = [enumIdx EXCEPT ![c] = a]
    /\ UNCHANGED <<envVars, evVars, displays, sessVars, workVars, busVars, callVars,
                   codecVars, libVars>>

\* State::display_addrs: collect() and return, releasing the read lock
EnumReturn(c) ==
    /\ pc[c] = "enum"
    /\ enumIdx[c] = NumAddrs
    /\ pc' = [pc EXCEPT ![c] = "idle"]
    /\ enumIdx' = [enumIdx EXCEPT ![c] = 0]
    /\ enumRes' = [enumRes EXCEPT ![c] = {}]
    /\ UNCHANGED <<envVars, evVars, displays, sessVars, workVars, busVars, handle, op,
                   sent, myTag, resp, respTag, result, codecVars, libVars>>

\* callers that hold the int mutex of s and have not written yet
Pending(s) == {k \in Callers : handle[k] = s /\ pc[k] = "locked"}

\* variant: a failed attempt is started over
Finish_Retry(c, r) ==
    /\ pc' = [pc EXCEPT ![c] = IF r = "err" THEN "locked" ELSE "ret"]
    /\ op' = op
    /\ sent' = [sent EXCEPT ![c] = NoPacket]
    /\ myTag' = [myTag EXCEPT ![c] = 0]
    /\ resp' = [resp EXCEPT ![c] = NoPacket]
    /\ respTag' = [respTag EXCEPT ![c] = 0]
    /\ result' = [result EXCEPT ![c] = r]

\* the operation returns r to its caller
Finish(c, r) ==
    /\ pc' = [pc EXCEPT ![c] = "ret"]
    /\ op' = [op EXCEPT ![c] = "none"]
    /\ sent' = [sent EXCEPT ![c] = NoPacket]
    /\ myTag' = [myTag EXCEPT ![c] = 0]
    /\ resp' = [resp EXCEPT ![c] = NoPacket]
    /\ respTag' = [respTag EXCEPT ![c] = 0]
    /\ result' = [result EXCEPT ![c] = r]

\* save_file: data.read_to_end fails, Err(()) before transmit
SaveFileUnreadable(c) ==
    /\ pc[c] = "idle"
    /\ handle[c] # 0
    /\ Finish(c, "err")
    /\ UNCHANGED <<envVars, evVars, displays, sessVars, workVars, busVars, handle,
                   enumVars, codecVars, libVars>>

\* variant: transmit does not wait for the guard
MutexFree_NoWait(s) == TRUE

\* Mutex::lock returns once no other thread holds the guard
MutexFree(s) == lockHolder[s] = 0

\* variant: the Option is taken to hold a transport at any time
NotInitialized_Never(s) == FALSE

\* `int_guard.as_ref().expect("Device is gone or not initialized yet")` fails:
\* the worker has not stored a transport
NotInitialized(s) == int[s] = "None"

\* A ManagedDisplay method is called on the handle and gets the int mutex
\* (transmit / serial_number / device_type_uuid): lock().expect(..), then
\* as_ref().expect(..); a panic under the guard poisons the mutex
CallOp(c, o) ==
    /\ pc[c] = "idle"
    /\ handle[c] # 0
    /\ LET s == handle[c] IN
         /\ reqSeq[s] + Cardinality(Pending(s)) < MaxReq
         /\ MutexFree(s)
         /\ IF poisoned[s]
              THEN Finish(c, "panic") /\ UNCHANGED sessVars
            ELSE IF NotInitialized(s)
              THEN /\ Finish(c, "panic")
                   /\ poisoned' = [poisoned EXCEPT ![s] = TRUE]
                   /\ UNCHANGED <<int, lockHolder>>
            ELSE IF o \notin FrameOps
              THEN Finish(c, "ok") /\ UNCHANGED sessVars
            ELSE /\ pc' = [pc EXCEPT ![c] = "locked"]
                 /\ op' = [op EXCEPT ![c] = o]
                 /\ lockHolder' = [lockHolder EXCEPT ![s] = c]
                 /\ UNCHANGED <<int, poisoned, sent, myTag, resp, respTag, result>>
    /\ UNCHANGED <<envVars, evVars, displays, workVars, busVars, handle, enumVars, codecVars, libVars>>

\* transcieve: self.write(control_packet, data)? with the packet the
\* operation built from its arguments
Write(c) ==
    /\ pc[c] = "locked"
    /\ LET s == handle[c] IN
       \E a \in CallArgs, len \in SaveLens :
       LET r == BuildRequest(op[c], a[1], a[2], a[3], len) IN
       \E w \in WriteOutcomes(s, r) :
         /\ pipe' = [pipe EXCEPT ![s] = w.pipe]
         /\ reqSeq' = [reqSeq EXCEPT ![s] = w.seq]
         /\ CASE w.kind = "ok" ->
                   /\ pc' = [pc EXCEPT ![c] = "written"]
                   /\ sent' = [sent EXCEPT ![c] = r.packet]
                   /\ myTag' = [myTag EXCEPT ![c] = w.seq]
                   /\ UNCHANGED <<sessVars, op, resp, respTag, result>>
              [] w.kind = "err" ->
                   /\ Finish(c, "err")
                   /\ lockHolder' = [lockHolder EXCEPT ![s] = 0]
                   /\ UNCHANGED <<int, poisoned>>
              [] OTHER ->
                   /\ Finish(c, "panic")
                   /\ lockHolder' = [lockHolder EXCEPT ![s] = 0]
                   /\ poisoned' = [poisoned EXCEPT ![s] = TRUE]
                   /\ UNCHANGED int
    /\ UNCHANGED <<envVars, evVars, displays, workVars, handle, enumVars, codecVars, libVars>>

\* transcieve: self.read(); transmit returns and drops the guard
Read(c) ==
    /\ pc[c] = "written"
    /\ LET s == handle[c] IN
       \E r \in ReadOutcomes(s) :
         /\ pipe' = [pipe EXCEPT ![s] = r.pipe]
         /\ lockHolder' = [lockHolder EXCEPT ![s] = 0]
         /\ CASE r.kind = "ok" ->
                   /\ pc' = [pc EXCEPT ![c] = "interp"]
                   /\ resp' = [resp EXCEPT ![c] = r.frame]
                   /\ respTag' = [respTag EXCEPT ![c] = r.tag]
                   /\ op' = [op EXCEPT ![c] = "none"]
                   /\ sent' = [sent EXCEPT ![c] = NoPacket]
                   /\ UNCHANGED <<int, poisoned, myTag, result>>
              [] r.kind = "err" ->
                   /\ Finish(c, "err")
                   /\ UNCHANGED <<int, poisoned>>
              [] OTHER ->
                   /\ Finish(c, "panic")
                   /\ poisoned' = [poisoned EXCEPT ![s] = TRUE]
                   /\ UNCHANGED int
    /\ UNCHANGED <<envVars, evVars, displays, workVars, reqSeq, handle, enumVars, codecVars, libVars>>

\* `match packet.has_error() { false => Ok(()), true => Err(()) }`
OpResult(p) == IF has_error(p) THEN "err" ELSE "ok"

Interpret(c) ==
    /\ pc[c] = "interp"
    /\ Finish(c, OpResult(resp[c]))
    /\ UNCHANGED <<envVars, evVars, displays, sessVars, workVars, busVars, handle,
                   enumVars, codecVars, libVars>>

\* the caller has taken the Result of its call
Return(c) ==
    /\ pc[c] = "ret"
    /\ pc' = [pc EXCEPT ![c] = "idle"]
    /\ result' = [result EXCEPT ![c] = "none"]
    /\ UNCHANGED <<envVars, evVars, displays, sessVars, workVars, busVars, handle, op,
                   sent, myTag, resp, respTag, enumVars, codecVars, libVars>>

\* ---------------------------------------------------------------------
\* Specification
\* ---------------------------------------------------------------------

Next ==
    \/ \E a \in Addrs, k \in DevKinds : Attach(a, k)
    \/ \E d \in Devs : Detach(d)
    \/ EvArrived
    \/ EvInsert
    \/ EvNotifyArrived
    \/ EvLeft
    \/ EvNotifyLeft
    \/ EvReturn
    \/ add_hotplug_handler
    \/ \E s \in Devs : WOpen(s)
    \/ \E s \in Devs : WWrite(s)
    \/ \E s \in Devs : WRead(s)
    \/ \E s \in Devs : WDecide(s)
    \/ \E s \in Devs : WCommit(s)
    \/ \E c \in Callers, a \in Addrs : Lookup(c, a)
    \/ \E c \in Callers : DropHandle(c)
    \/ \E c \in Callers : EnumStart(c)
    \/ \E c \in Callers : EnumStep(c)
    \/ \E c \in Callers : EnumReturn(c)
    \/ \E c \in Callers, o \in Ops : CallOp(c, o)
    \/ \E c \in Callers : SaveFileUnreadable(c)
    \/ \E c \in Callers : Write(c)
    \/ \E c \in Callers : Read(c)
    \/ \E c \in Callers : Interpret(c)
    \/ \E c \in Callers : Return(c)

Spec == Init /\ [][Next]_vars

\* ---------------------------------------------------------------------
\* The exported DirectOutput_* functions (libfip.rs)
\* ---------------------------------------------------------------------

\* the (bus, device) pair of the libusb device plugged at address a
BusDev(a) == <<1, a>>

\* the address whose (bus, device) pair is bd, 0 if there is none
AddrOfBusDev(bd) == IF \E a \in Addrs : BusDev(a) = bd
                      THEN CHOOSE a \in Addrs : BusDev(a) = bd
                      ELSE 0

\* embed_addr: ((bus as u16) << 8 | (device as u16)) as DevicePtr
embed_addr(device_addr) == (device_addr[1] * 256 + device_addr[2]) % 65536

\* extract_addr: Err(E_HANDLE) is <<>>
extract_addr(device_ptr) ==
    IF device_ptr % 65536 = 0 \/ device_ptr >= 65535
      THEN <<>>
      ELSE <<(device_ptr % 65536) \div 256, (device_ptr % 65536) % 256>>

\* device pointers applications pass: what Enumerate hands out, and null
ShimPtrs == {embed_addr(BusDev(a)) : a \in Addrs} \cup {0}
\* (page_number, led_index, led_value) of DirectOutput_SetLed calls
ShimLedArgs == {<<0, 1, 1>>, <<0, 1, 2>>, <<256, 1, 0>>}
\* (page_number, image_size, image is null) of DirectOutput_SetImage calls
ShimImageArgs == {<<0, ImageSize, FALSE>>, <<0, ImageSize - 1, FALSE>>,
                  <<0, ImageSize + 1, FALSE>>, <<0, 0, FALSE>>,
                  <<0, ImageSize, TRUE>>, <<256, ImageSize, FALSE>>}

\* a panic has unwound out of an exported function: the process is over
Aborted == \E c \in Callers : pc[c] = "aborted"

\* the guard of STATE is held from the lock() at the top of an exported
\* function to its return
StateHeld == \E c \in Callers : pc[c] \in {"locked", "written", "interp", "ret", "enum"}

\* get_display: the session of device_ptr, or 0 for Err(E_HANDLE)
get_display(device_ptr) ==
    LET addr == extract_addr(device_ptr)
        a == IF addr = <<>> THEN 0 ELSE AddrOfBusDev(addr)
        display == IF a = 0 THEN 0 ELSE display_by_addr(a) IN
    IF display # 0 /\ ready(display) THEN display ELSE 0

\* the exported function returns hr without having called the device
ShimReject(c, hr) ==
    /\ pc' = [pc EXCEPT ![c] = "shim_ret"]
    /\ result' = [result EXCEPT ![c] = hr]
    /\ UNCHANGED <<sessVars, handle, op, sent, myTag, resp, respTag>>

\* the exported function calls method o of the display: transmit takes the
\* int mutex
ShimTransmit(c, s, o) ==
    /\ reqSeq[s] < ShimMaxReq
    /\ pc' = [pc EXCEPT ![c] = "locked"]
    /\ op' = [op EXCEPT ![c] = o]
    /\ handle' = [handle EXCEPT ![c] = s]
    /\ lockHolder' = [lockHolder EXCEPT ![s] = c]
    /\ UNCHANGED <<int, poisoned, sent, myTag, resp, respTag, result>>

\* a DWORD that try_into::<u8>() accepts
FitsU8(v) == v >= 0 /\ v <= 255

DirectOutput_SetLed(c, device_ptr, page_number, led_index, led_value) ==
    /\ pc[c] = "idle"
    /\ ~StateHeld
    /\ ~Aborted
    /\ LET display == get_display(device_ptr) IN
         IF display = 0 THEN ShimReject(c, "E_HANDLE")
         ELSE IF ~FitsU8(page_number) \/ ~FitsU8(led_index) \/ led_value \notin {0, 1}
           THEN ShimReject(c, "E_INVALIDARG")
         ELSE ShimTransmit(c, display, "set_led")
    /\ UNCHANGED <<envVars, evVars, displays, workVars, busVars, enumVars, codecVars, libVars>>

\* variant: any image size is taken
ImageSizeOk_Any(image_size) == TRUE

\* `if image_size != 0x38400 { return E_BUFFERTOOSMALL; }`
ImageSizeOk(image_size) == image_size = ImageSize

DirectOutput_SetImage(c, device_ptr, page_number, image_size, image_null) ==
    /\ pc[c] = "idle"
    /\ ~StateHeld
    /\ ~Aborted
    /\ LET display == get_display(device_ptr) IN
         IF display = 0 THEN ShimReject(c, "E_HANDLE")
         ELSE IF image_null THEN ShimReject(c, "E_INVALIDARG")
         ELSE IF ~ImageSizeOk(image_size) THEN ShimReject(c, "E_BUFFERTOOSMALL")
         ELSE IF ~FitsU8(page_number) THEN ShimReject(c, "E_INVALIDARG")
         ELSE ShimTransmit(c, display, "set_image_data")
    /\ UNCHANGED <<envVars, evVars, displays, workVars, busVars, enumVars, codecVars, libVars>>

\* DirectOutput_Enumerate: state.display_addrs() under the guard of STATE
DirectOutput_Enumerate(c) ==
    /\ ~StateHeld
    /\ ~Aborted
    /\ EnumStart(c)

\* `_ = display.set_led(..)` / `_ = display.set_image_data(..)`: the Result
\* is dropped, the Arc is dropped and S_OK is returned; a panic of the
\* method unwinds out of the exported function
ShimFinish(c) ==
    /\ pc[c] = "ret"
    /\ IF result[c] = "panic"
         THEN /\ pc' = [pc EXCEPT ![c] = "aborted"]
              /\ UNCHANGED result
         ELSE /\ pc' = [pc EXCEPT ![c] = "shim_ret"]
              /\ result' = [result EXCEPT ![c] = "S_OK"]
    /\ handle' = [handle EXCEPT ![c] = 0]
    /\ UNCHANGED <<envVars, evVars, displays, sessVars, workVars, busVars, op, sent,
                   myTag, resp, respTag, enumVars, codecVars, libVars>>

\* the application has taken the HRESULT
ShimReturn(c) ==
    /\ pc[c] = "shim_ret"
    /\ pc' = [pc EXCEPT ![c] = "idle"]
    /\ result' = [result EXCEPT ![c] = "none"]
    /\ UNCHANGED <<envVars, evVars, displays, sessVars, workVars, busVars, handle, op,
                   sent, myTag, resp, respTag, enumVars, codecVars, libVars>>

\* the library used through its exported functions only, with devices that
\* stay plugged in
InitShim == InitWith(1..ShimDevices) /\ CodecOff

NextShim ==
    \/ \E a \in Addrs, k \in DevKinds : Attach(a, k)
    \/ EvArrived
    \/ EvInsert
    \/ EvNotifyArrived
    \/ EvReturn
    \/ \E s \in Devs : WOpen(s)
    \/ \E s \in Devs : WWrite(s)
    \/ \E s \in Devs : WRead(s)
    \/ \E s \in Devs : WDecide(s)
    \/ \E s \in Devs : WCommit(s)
    \/ \E c \in Callers, p \in ShimPtrs, a \in ShimLedArgs :
          DirectOutput_SetLed(c, p, a[1], a[2], a[3])
    \/ \E c \in Callers, p \in ShimPtrs, a \in ShimImageArgs :
          DirectOutput_SetImage(c, p, a[1], a[2], a[3])
    \/ \E c \in Callers : DirectOutput_Enumerate(c)
    \/ \E c \in Callers : EnumStep(c)
    \/ \E c \in Callers : EnumReturn(c)
    \/ \E c \in Callers : Write(c)
    \/ \E c \in Callers : Read(c)
    \/ \E c \in Callers : Interpret(c)
    \/ \E c \in Callers : ShimFinish(c)
    \/ \E c \in Callers : ShimReturn(c)

SpecShim == InitShim /\ [][NextShim]_vars

\* ---------------------------------------------------------------------
\* Hotplug runs: observers that keep track, and the end of the library
\* ---------------------------------------------------------------------

\* what the observers know after the calls in notes: display_arrived adds
\* the address, display_left takes it away
Deliver(known, notes) ==
    [h \in DOMAIN known |->
        LET mine == {i \in 1..Len(notes) : notes[i].h = h} IN
        IF mine = {} THEN known[h]
        ELSE LET n == notes[CHOOSE i \in mine : TRUE] IN
             IF n.kind = "arrived" THEN known[h] \cup {n.addr} ELSE known[h] \ {n.addr}]

\* the hotplug callback returns; the observers have taken note of its calls
EvReturnSeen ==
    /\ evpc = "ev_return"
    /\ evpc' = "idle"
    /\ evDev' = 0
    /\ notified' = <<>>
    /\ seen' = Deliver(seen, notified)
    /\ UNCHANGED <<envVars, handlers, displays, sessVars, workVars, busVars, callVars,
                   enumVars, codecVars, registry>>

\* DirectOutput_Deinitialize: state.take() drops the State, and with it the
\* map of displays and the vector of observers
DropState ==
    /\ RegistryLive
    /\ Readers = {}
    /\ \A c \in Callers : pc[c] = "idle"
    /\ registry' = "dropped"
    /\ displays' = [a \in Addrs |-> 0]
    /\ handlers' = 0
    /\ UNCHANGED <<envVars, evpc, evDev, notified, sessVars, workVars, busVars, callVars,
                   enumVars, codecVars, seen>>

InitHotplug == InitWith(1..MaxDevices) /\ CodecOff

NextHotplug ==
    \/ \E a \in Addrs, k \in DevKinds : Attach(a, k)
    \/ \E d \in Devs : Detach(d)
    \/ EvArrived
    \/ EvInsert
    \/ EvNotifyArrived
    \/ EvLeft
    \/ EvNotifyLeft
    \/ EvReturnSeen
    \/ add_hotplug_handler
    \/ DropState
    \/ \E s \in Devs : WOpen(s)
    \/ \E s \in Devs : WWrite(s)
    \/ \E s \in Devs : WRead(s)
    \/ \E s \in Devs : WDecide(s)
    \/ \E s \in Devs : WCommit(s)

SpecHotplug == InitHotplug /\ [][NextHotplug]_vars

\* ---------------------------------------------------------------------
\* Conversions: device pointers and frames on the wire
\* ---------------------------------------------------------------------

\* bus numbers and device addresses (u8) the conversions are run on
CodecBytes == {0, 1, 2, 127, 128, 254, 255}
CodecAddrs == CodecBytes \X CodecBytes

\* u32 values the fields of the frames take in the conversion runs
CodecWords == {0, 1, 255, 256, 16909060, 2147483647}

\* field order of the #[repr(C)] struct ControlPacket
PacketFields == <<"server_id", "page", "data_size", "header_error", "header_info",
                  "request", "param_1", "param_2", "param_3", "request_error",
                  "request_info">>

\* the frames the conversions are run on
CodecPackets ==
    {BuildRequest(o, a[1], a[2], a[3], 5).packet : o \in FrameOps, a \in CallArgs}
      \cup ResponseFrames
      \cup {[f \in {PacketFields[i] : i \in 1..Len(PacketFields)} |->
               IF f = PacketFields[k] THEN w ELSE 1] :
             k \in 1..Len(PacketFields), w \in CodecWords}

\* zerocopy U32<BigEndian>: the four bytes of a value, most significant first
BEU32_bytes(v) == <<v \div 16777216, (v \div 65536) % 256, (v \div 256) % 256, v % 256>>

\* variant: the bytes are read least significant first (kept below 2^31)
BEU32_get_LittleEndian(b) == (b[4] % 128) * 16777216 + b[3] * 65536 + b[2] * 256 + b[1]

\* U32<BigEndian>::get
BEU32_get(b) == b[1] * 16777216 + b[2] * 65536 + b[3] * 256 + b[4]

\* AsBytes::as_bytes of a ControlPacket: the 11 fields in struct order
as_bytes(p) ==
    [i \in 1..(4 * Len(PacketFields)) |->
        BEU32_bytes(p[PacketFields[((i - 1) \div 4) + 1]])[((i - 1) % 4) + 1]]

\* FromBytes::read_from of a buffer of size_of::<ControlPacket>() bytes
read_from(b) ==
    [f \in {PacketFields[i] : i \in 1..Len(PacketFields)} |->
        LET k == CHOOSE i \in 1..Len(PacketFields) : PacketFields[i] = f IN
        BEU32_get(SubSeq(b, 4 * k - 3, 4 * k))]

\* a conversion run starts from an address or from a frame
InitCodec ==
    /\ InitWith(1..MaxDevices)
    /\ \/ codecPc = "addr" /\ codecIn \in CodecAddrs
       \/ codecPc = "packet" /\ codecIn \in CodecPackets
    /\ codecMid = <<>>
    /\ codecOut = <<>>

\* DirectOutput_Enumerate: embed_addr(*addr)
EmbedAddr ==
    /\ codecPc = "addr"
    /\ codecMid' = embed_addr(codecIn)
    /\ codecPc' = "ptr"
    /\ UNCHANGED <<envVars, evVars, displays, sessVars, workVars, busVars, callVars,
                   enumVars, codecIn, codecOut, libVars>>

\* get_display: extract_addr(device_ptr)
ExtractAddr ==
    /\ codecPc = "ptr"
    /\ codecOut' = extract_addr(codecMid)
    /\ codecPc' = "addr_out"
    /\ UNCHANGED <<envVars, evVars, displays, sessVars, workVars, busVars, callVars,
                   enumVars, codecIn, codecMid, libVars>>

\* write: control_packet.as_bytes()
EncodePacket ==
    /\ codecPc = "packet"
    /\ codecMid' = as_bytes(codecIn)
    /\ codecPc' = "bytes"
    /\ UNCHANGED <<envVars, evVars, displays, sessVars, workVars, busVars, callVars,
                   enumVars, codecIn, codecOut, libVars>>

\* read: ControlPacket::read_from(&control_packet_bytes)
DecodePacket ==
    /\ codecPc = "bytes"
    /\ codecOut' = read_from(codecMid)
    /\ codecPc' = "packet_out"
    /\ UNCHANGED <<envVars, evVars, displays, sessVars, workVars, busVars, callVars,
                   enumVars, codecIn, codecMid, libVars>>

NextCodec ==
    \/ EmbedAddr
    \/ ExtractAddr
    \/ EncodePacket
    \/ DecodePacket

SpecCodec == InitCodec /\ [][NextCodec]_vars

\* ---------------------------------------------------------------------
\* Properties
\* ---------------------------------------------------------------------

\* the caller c is inside transcieve on its session
InFlight(c) == pc[c] \in {"locked", "written"}

\* the session's handshake was committed and its mutex is intact
Ready(s) == int[s] = "Some" /\ ~poisoned[s]

\* C1: display_addrs (enumerate_ready) collects only addresses that are in
\* the registry and whose session has committed its handshake, and an address
\* is collected only at a moment its session is Ready (never Uninitialized,
\* never poisoned).
C1_EnumerateOnlyReady ==
    /\ [](\A c \in Callers : pc[c] = "enum" =>
            \A a \in enumRes[c] : displays[a] # 0 /\ int[displays[a]] = "Some")
    /\ [][\A c \in Callers : \A a \in Addrs :
            (a \in enumRes'[c] /\ (pc[c] # "enum" \/ a \notin enumRes[c]))
               => (displays[a] # 0 /\ Ready(displays[a]))]_vars

\* an enumeration has visited the whole map and returns a non-empty list
C1_Witness ==
    \E c \in Callers : pc[c] = "enum" /\ enumIdx[c] = NumAddrs /\ enumRes[c] # {}

\* C2: a session becomes Ready only through its worker's commit, which is
\* reached only from a probe response with a nonzero error field; after an
\* error-free probe response the worker ends in "factory"; a worker that
\* ended without committing never commits and never probes again, and its
\* session is never Ready.
C2_ProbeErr(p) == p.header_error # 0 \/ p.request_error # 0

C2_WorkerFailed(s) == wpc[s] \in {"exit", "panicked", "factory", "panic_poison"}

C2_ReadyOnlyAfterProbeError ==
    /\ [](\A s \in Devs : C2_WorkerFailed(s) => int[s] = "None")
    /\ [][\A s \in Devs :
            /\ (int[s] = "None" /\ int'[s] = "Some") => wpc[s] = "commit"
            /\ (wpc[s] # "commit" /\ wpc'[s] = "commit")
                  => (wpc[s] = "probe_read" /\ C2_ProbeErr(probeResp[s]))
            /\ (wpc[s] = "probe_read" /\ ~C2_ProbeErr(probeResp[s]) /\ wpc'[s] # wpc[s])
                  => wpc'[s] = "factory"
            /\ (C2_WorkerFailed(s) /\ wpc'[s] # wpc[s])
                  => (wpc'[s] = "none" /\ reqSeq'[s] = 0)
            /\ (C2_WorkerFailed(s) /\ wpc'[s] = wpc[s]) => reqSeq'[s] = reqSeq[s]]_vars

\* a session is Ready after its worker committed
C2_Witness == \E s \in Devs : wpc[s] = "done" /\ Ready(s)

\* threads that are between taking the transport of s for an exchange and
\* the end of that exchange
C4_Exchanging(s) ==
    {c \in Callers : InFlight(c) /\ handle[c] = s}
      \cup (IF wpc[s] \in {"opened", "probe_written"} THEN {0} ELSE {})

\* C4: at most one thread is inside a request/response exchange with a
\* device, whatever number of callers hold handles to its session.
C4_OneExchangeInFlight == \A s \in Devs : Cardinality(C4_Exchanging(s)) <= 1

\* a caller has written its request and awaits the reply while the other
\* caller holds a handle to the same session
C4_Witness ==
    \E c \in Callers : \E k \in Callers :
        c # k /\ pc[c] = "written" /\ handle[k] = handle[c]

\* C3: an operation called on a session that is not Ready returns a failure
\* to its caller (no panic) and leaves the session and its transport as
\* they were.
C3_NotReadyOpFails ==
    [][\A c \in Callers :
         (pc[c] = "idle" /\ pc'[c] \in {"ret", "locked"} /\ ~Ready(handle[c]))
            => /\ pc'[c] = "ret"
               /\ result'[c] = "err"
               /\ int' = int
               /\ poisoned' = poisoned
               /\ pipe' = pipe
               /\ reqSeq' = reqSeq]_vars

\* C5: the response frame an operation interprets is the reply to the
\* request that operation wrote.
C5_ResponseMatchesRequest ==
    \A c \in Callers : pc[c] = "interp" => respTag[c] = myTag[c]

\* C6: an operation on a Ready session that ends in a transport error
\* leaves the session not Ready.
C6_TransportErrorInvalidates ==
    [][\A c \in Callers :
         (InFlight(c) /\ pc'[c] = "ret" /\ result'[c] = "err")
            => ~(int'[handle[c]] = "Some" /\ ~poisoned'[handle[c]])]_vars

\* the departure of the device of s has been handled by device_left
C7_LeftHandled(s) ==
    /\ devState[s] = "detached"
    /\ \A i \in 1..Len(events) : events[i].dev # s
    /\ ~(evpc \in {"arr_insert", "arr_notify"} /\ evDev = s)

\* some thread of the program is inside an operation or has queued work
C7_Working ==
    \/ events # <<>>
    \/ evpc # "idle"
    \/ \E c \in Callers : pc[c] # "idle"
    \/ \E s \in Devs : ~WorkerOver(s)

\* the steps of the program's threads (not the bus, not new calls)
C7_Progress ==
    \/ EvArrived \/ EvInsert \/ EvNotifyArrived \/ EvLeft \/ EvNotifyLeft \/ EvReturn
    \/ \E s \in Devs : WOpen(s) \/ WWrite(s) \/ WRead(s) \/ WDecide(s) \/ WCommit(s)
    \/ \E c \in Callers : EnumStep(c) \/ EnumReturn(c) \/ Write(c) \/ Read(c)
                          \/ Interpret(c) \/ Return(c)

\* C7: once device_left has handled a departure the registry holds no entry
\* for the session and a lookup returns only what the registry holds; an
\* operation in flight on the removed session can always take its next step
\* and returns Ok or Err, never a panic; the program as a whole never
\* reaches a state where work is pending and no thread can step.
C7_RemovalDuringOperation ==
    /\ [](\A s \in Devs : C7_LeftHandled(s) => \A a \in Addrs : displays[a] # s)
    /\ [](\A c \in Callers : InFlight(c) => ENABLED (Write(c) \/ Read(c)))
    /\ [](C7_Working => ENABLED C7_Progress)
    /\ [][\A c \in Callers :
            /\ (handle'[c] # handle[c] /\ handle'[c] # 0)
                  => (displays[devAddr[handle'[c]]] = handle'[c]
                      /\ ~C7_LeftHandled(handle'[c]))
            /\ (pc[c] \in {"locked", "written", "interp"} /\ pc'[c] = "ret"
                /\ devState[handle[c]] = "detached")
                  => result'[c] \in {"ok", "err"}]_vars

\* the departure was handled while an operation on the session is in flight
C7_Witness ==
    \E c \in Callers : pc[c] = "written" /\ C7_LeftHandled(handle[c])

\* C8: when the worker of an attached device has ended after a handshake
\* whose I/O succeeded and whose probe response was not a factory-mode
\* rejection, the session's handshake is committed.
C8_HandshakeCommits ==
    \A s \in Devs :
        (devState[s] = "attached" /\ wpc[s] \in {"done", "panic_poison"})
           => int[s] = "Some"

\* the opcode table of the protocol
C9_Opcode(o) ==
    CASE o = "set_image_data" -> 6
      [] o = "set_led" -> 24
      [] o = "clear_image" -> 19
      [] o = "save_file" -> 3
      [] o = "display_file" -> 4
      [] o = "delete_file" -> 7
      [] OTHER -> 0

\* C9: the request an operation has written carries that operation's opcode
\* of the opcode table.
C9_OperationOpcode ==
    \A c \in Callers : pc[c] = "written" => sent[c].request = C9_Opcode(op[c])

C10_AnyStatus(p) ==
    p.header_error # 0 \/ p.header_info # 0 \/ p.request_error # 0 \/ p.request_info # 0

C10_AnyError(p) == p.header_error # 0 \/ p.request_error # 0

\* C10 as stated: an operation that went to the transport returns success
\* iff its exchange completed and all four status fields of the response
\* are zero.
C10_SuccessIffAllStatusZero ==
    [][\A c \in Callers :
         (pc[c] \in {"locked", "written", "interp"} /\ pc'[c] = "ret")
            => (result'[c] = "ok" <=> (pc[c] = "interp" /\ ~C10_AnyStatus(resp[c])))]_vars

\* C10 amended: an operation that went to the transport returns success iff
\* its exchange completed and both error fields (header_error,
\* request_error) of the response are zero; the info fields are not read.
C10_SuccessIffNoErrorField ==
    [][\A c \in Callers :
         (pc[c] \in {"locked", "written", "interp"} /\ pc'[c] = "ret")
            => (result'[c] = "ok" <=> (pc[c] = "interp" /\ ~C10_AnyError(resp[c])))]_vars

\* an exchange completed with a response whose info fields are set and
\* whose error fields are zero
C10_Witness ==
    \E c \in Callers :
        pc[c] = "interp" /\ ~C10_AnyError(resp[c]) /\ C10_AnyStatus(resp[c])

\* C11: a thread that holds the displays lock (a display_addrs in progress)
\* never has to wait for a session's int mutex, which a caller holds for the
\* whole of its USB exchange.
C11_RegistryLockNeverWaits ==
    \A c \in Callers :
        (pc[c] = "enum" /\ enumIdx[c] < NumAddrs /\ displays[enumIdx[c] + 1] # 0)
           => lockHolder[displays[enumIdx[c] + 1]] = 0

\* C14: when device_arrived notifies the observers the session is already
\* in the registry under the arrived address (display_by_addr returns it),
\* and the observers are called once each in the order they were registered.
C14_InsertBeforeNotify ==
    /\ [](evpc = "arr_notify" => display_by_addr(devAddr[evDev]) = evDev)
    /\ [][(evpc = "arr_notify" /\ evpc' # "arr_notify")
            => /\ display_by_addr(devAddr[evDev]) = evDev
               /\ Len(notified') = handlers
               /\ \A i \in 1..Len(notified') :
                     notified'[i] = [h |-> i, kind |-> "arrived", addr |-> devAddr[evDev]]]_vars

\* two observers were told of an arrival
C14_Witness ==
    /\ Len(notified) = 2
    /\ notified[1].kind = "arrived"
    /\ display_by_addr(notified[1].addr) # 0

\* the step in which device_left takes a departure event from libusb
C15_LeftEvent ==
    /\ evpc = "idle"
    /\ events # <<>>
    /\ Head(events).kind = "left"
    /\ events' = Tail(events)

\* C15 as stated: on every removal event the entry of the address is removed
\* if present, the registry is unchanged if absent, and the observers are
\* then notified with the address.
C15_RemovalAlwaysNotifies ==
    [][C15_LeftEvent =>
         LET a == devAddr[Head(events).dev] IN
         /\ displays'[a] = 0
         /\ \A b \in Addrs \ {a} : displays'[b] = displays[b]
         /\ evpc' = "left_notify"]_vars

\* C15 amended: on a removal event the entry of the address is removed if
\* present and the observers are then notified, once each, with that
\* address; if no entry is present the registry is unchanged and no
\* observer is notified.  While and after the observers are notified the
\* registry has no entry for the address.
C15_RemovalNotifiesIfPresent ==
    /\ [](evpc = "left_notify" => display_by_addr(devAddr[evDev]) = 0)
    /\ [][C15_LeftEvent =>
            LET a == devAddr[Head(events).dev] IN
            /\ displays'[a] = 0
            /\ \A b \in Addrs \ {a} : displays'[b] = displays[b]
            /\ (evpc' = "left_notify") <=> (displays[a] # 0)
            /\ (evpc' # "left_notify") => (evpc' = "idle" /\ notified' = notified)]_vars
    /\ [][(evpc = "left_notify" /\ evpc' # "left_notify") =>
            /\ Len(notified') = handlers
            /\ \A i \in 1..Len(notified') :
                  /\ notified'[i].kind = "left"
                  /\ notified'[i].addr = devAddr[evDev]
            /\ display_by_addr(devAddr[evDev]) = 0]_vars

\* the observers were told of a departure and the entry is gone
C15_Witness ==
    /\ evpc = "ev_return"
    /\ notified # <<>>
    /\ notified[1].kind = "left"
    /\ display_by_addr(notified[1].addr) = 0

\* C12: while one caller's exchange with a device is in flight, a call of
\* DirectOutput_SetLed by another caller for a different, Ready device can
\* start.
C12_OtherDeviceNotBlocked ==
    \A c \in Callers : \A k \in Callers : \A a \in Addrs :
        (/\ c # k
         /\ pc[c] = "idle"
         /\ InFlight(k)
         /\ displays[a] # 0
         /\ displays[a] # handle[k]
         /\ Ready(displays[a])
         /\ reqSeq[displays[a]] < ShimMaxReq)
           => ENABLED DirectOutput_SetLed(c, embed_addr(BusDev(a)), 0, 1, 1)

\* C13: a DirectOutput_SetImage call whose image_size is not 0x38400 returns
\* an error code at once: no request is written, nothing is read, and no
\* session state (int, its mutex, the device's pending replies) changes.
C13_WrongImageSizeRejected ==
    [][\A c \in Callers : \A p \in ShimPtrs : \A a \in ShimImageArgs :
         (/\ pc[c] = "idle" /\ pc'[c] # "idle"
          /\ a[2] # ImageSize
          /\ DirectOutput_SetImage(c, p, a[1], a[2], a[3]))
            => /\ pc'[c] = "shim_ret"
               /\ result'[c] \in {"E_HANDLE", "E_INVALIDARG", "E_BUFFERTOOSMALL"}
               /\ UNCHANGED <<sessVars, busVars, handle, sent>>]_vars

\* a call was rejected for its image size
C13_Witness ==
    \E c \in Callers : pc[c] = "shim_ret" /\ result[c] = "E_BUFFERTOOSMALL"

\* the worker of s ended without committing a transport
C16_InitFailed(s) == wpc[s] \in {"panicked", "factory"}

\* C16: a worker whose initialization fails (open, claim, descriptors,
\* endpoints, or the probe exchange) changes nothing but its own position
\* and its own device's pending replies: the registry, the event thread,
\* the queued hotplug events, the callers and every other session stay as
\* they are; its session is never Ready; and the event thread can still take
\* the next hotplug event.
C16_InitFailureIsLocal ==
    /\ [](\A s \in Devs : C16_InitFailed(s) => ~Ready(s))
    /\ []((/\ \E s \in Devs : C16_InitFailed(s)
           /\ evpc = "idle" /\ events # <<>> /\ Readers = {})
             => ENABLED (EvArrived \/ EvLeft))
    /\ [][\A s \in Devs :
            (~C16_InitFailed(s) /\ C16_InitFailed(s)')
               => /\ UNCHANGED <<envVars, evVars, displays, sessVars, callVars, enumVars, codecVars, libVars>>
                  /\ \A t \in Devs \ {s} :
                        /\ wpc'[t] = wpc[t]
                        /\ probeResp'[t] = probeResp[t]
                        /\ pipe'[t] = pipe[t]
                        /\ reqSeq'[t] = reqSeq[t]]_vars

\* one device failed its initialization, the other one is Ready and both
\* are in the registry
C16_Witness ==
    \E s \in Devs : \E t \in Devs :
        /\ wpc[s] = "panicked"
        /\ Ready(t)
        /\ displays[devAddr[s]] = s
        /\ displays[devAddr[t]] = t

\* the session is Invalid: its worker ended without a commit, or its mutex
\* is poisoned
C17_Invalid(s) == poisoned[s] \/ wpc[s] \in {"exit", "panicked", "factory", "panic_poison"}

\* C17: an Invalid session is not Ready and stays Invalid until its device
\* slot is taken by a newly plugged device with a fresh session; a session
\* becomes Ready only by the commit of its worker, never from Invalid.
C17_InvalidIsTerminal ==
    /\ [](\A s \in Devs : C17_Invalid(s) => ~Ready(s))
    /\ [][\A s \in Devs :
            /\ C17_Invalid(s)
                 => \/ C17_Invalid(s)'
                    \/ /\ devState[s] # "attached" /\ devState'[s] = "attached"
                       /\ wpc'[s] = "none" /\ int'[s] = "None"
            /\ (~Ready(s) /\ Ready(s)') => (wpc[s] = "commit" /\ ~C17_Invalid(s))]_vars

\* a session that was Ready has been poisoned
C17_Witness == \E s \in Devs : poisoned[s] /\ int[s] = "Some" /\ wpc[s] = "done"

\* C20: once the worker thread of a session has ended after its commit, the
\* device has received a second request from it, the clear-page request,
\* after the probe.
C20_ClearPageAfterCommit ==
    \A s \in Devs : wpc[s] = "done" => reqSeq[s] >= 2

\* C18: extract_addr gives back the (bus, device) pair embed_addr was
\* applied to, for every pair of u8 values, and embed_addr maps distinct
\* pairs to distinct device pointers.
C18_AddrRoundTrip ==
    /\ codecPc = "addr_out" => codecOut = codecIn
    /\ \A x \in CodecAddrs : \A y \in CodecAddrs :
          x # y => embed_addr(x) # embed_addr(y)

\* the set-led frame of the round-trip law
C19_SetLedPacket == BuildRequest("set_led", 2, 5, 1, 0).packet

\* C19: a ControlPacket written as its 44 big-endian bytes and read back
\* from them has the same value in each of its 11 fields.
C19_PacketRoundTrip ==
    /\ codecPc = "bytes" => Len(codecMid) = 44
    /\ codecPc = "packet_out" =>
          /\ DOMAIN codecOut = DOMAIN codecIn
          /\ \A i \in 1..Len(PacketFields) :
                codecOut[PacketFields[i]] = codecIn[PacketFields[i]]

\* the set-led frame with param_1 = 2, param_2 = 5, param_3 = 1 went through
\* the round trip
C19_Witness ==
    /\ codecPc = "packet_out"
    /\ codecIn = C19_SetLedPacket
    /\ codecIn.request = 24 /\ codecIn.param_1 = 2 /\ codecIn.param_2 = 5
    /\ codecIn.param_3 = 1
    /\ SubSeq(codecMid, 21, 24) = <<0, 0, 0, 24>>

\* the worker of s has opened the device and has not yet ended
C25_Probing(s) == wpc[s] \in {"opened", "probe_written", "probe_read", "commit"}

\* C25: while the worker of a session is between opening the device and
\* committing the transport, no caller is inside an exchange on that
\* session, and a step that ends a call made in that time leaves the
\* device's pending replies and request count as they were.
C25_ProbeNeverOverlaps ==
    /\ [](\A s \in Devs : C25_Probing(s) =>
            \A c \in Callers : handle[c] = s => pc[c] \notin {"locked", "written", "interp"})
    /\ [][\A c \in Callers :
            (/\ handle[c] # 0 /\ C25_Probing(handle[c])
             /\ pc[c] = "idle" /\ pc'[c] \in {"locked", "ret"})
               => (pc'[c] = "ret" /\ UNCHANGED busVars)]_vars

\* a call was made on the session while its worker was awaiting the probe
\* response
C25_Witness ==
    \E c \in Callers :
        /\ handle[c] # 0
        /\ wpc[handle[c]] = "probe_written"
        /\ pc[c] = "ret"
        /\ result[c] = "panic"

\* C27: DirectOutput_SetLed / DirectOutput_SetImage return S_OK after a call
\* of the display's method only if that method returned Ok.
C27_OkOnlyOnSuccess ==
    [][\A c \in Callers :
         (pc[c] = "ret" /\ pc'[c] = "shim_ret" /\ result'[c] = "S_OK")
            => result[c] = "ok"]_vars

\* C23: a call goes through its steps once: lock, one write, one read, one
\* look at the response, return.  A write that fails ends the call with a
\* failure and nothing is read; a read that fails ends the call with a
\* failure; a response with an error field set ends it with a failure; and
\* a device receives a request only by the single write of a call (or of
\* its worker's probe).
C23_NoRetry ==
    [][\A c \in Callers :
         /\ pc[c] = "locked" => pc'[c] \in {"locked", "written", "ret"}
         /\ pc[c] = "written" => pc'[c] \in {"written", "interp", "ret"}
         /\ pc[c] = "interp" => pc'[c] \in {"interp", "ret"}
         /\ (pc[c] = "locked" /\ pc'[c] = "ret")
               => (result'[c] \in {"err", "panic"} /\ UNCHANGED busVars)
         /\ (pc[c] = "written" /\ pc'[c] = "ret") => result'[c] \in {"err", "panic"}
         /\ (pc[c] = "interp" /\ pc'[c] = "ret" /\ C10_AnyError(resp[c]))
               => result'[c] = "err"
         /\ (pc[c] \in {"written", "interp"} /\ pc'[c] # pc[c])
               => reqSeq'[handle[c]] = reqSeq[handle[c]]
         /\ (pc[c] = "locked" /\ pc'[c] = "written")
               => reqSeq'[handle[c]] = reqSeq[handle[c]] + 1]_vars

\* a call returned a failure after its request was written and its one read
\* failed: the reply is still pending
C23_Witness ==
    \E c \in Callers :
        /\ pc[c] = "ret" /\ result[c] = "err"
        /\ handle[c] # 0
        /\ reqSeq[handle[c]] = 2
        /\ pipe[handle[c]] = <<2>>

\* a caller's read on s is about to get a reply frame of the device
C21_ReplyAtHand(s) ==
    /\ devState[s] = "attached"
    /\ pipe[s] # <<>>
    /\ Head(pipe[s]) # Leftover
    /\ \E c \in Callers : pc[c] = "written" /\ handle[c] = s

\* C21: a read that gets a frame declaring a payload of 0 < data_size <
\* 512 KiB succeeds, and no payload bytes are ever left unread on a device's
\* IN endpoint.
C21_PayloadConsumed ==
    \A s \in Devs :
        /\ \A i \in 1..Len(pipe[s]) : pipe[s][i] # Leftover
        /\ C21_ReplyAtHand(s) =>
              \A f \in ResponseFrames :
                  (f.data_size > 0 /\ f.data_size < MaxDataSize)
                     => \E r \in ReadFrame(s, f, Head(pipe[s]), Tail(pipe[s])) :
                           r.kind = "ok" /\ r.frame = f

\* C22: a read that gets a frame declaring a data_size of at most 512 KiB
\* does not treat it as fatal: it does not panic.
C22_BoundIsInclusive ==
    \A s \in Devs :
        C21_ReplyAtHand(s) =>
            \A f \in ResponseFrames :
                f.data_size <= MaxDataSize
                   => \A r \in ReadFrame(s, f, Head(pipe[s]), Tail(pipe[s])) :
                         r.kind # "panic"

\* C24: once the State is dropped, a hotplug handler calls no observer; a
\* worker that starts then (its arrival handler's back-references cannot be
\* upgraded) ends without opening the device; and a worker whose session
\* was dropped before it started ends without any device I/O.
C24_BackRefsAbortAsNoOps ==
    /\ [][~RegistryLive => (notified' = notified \/ notified' = <<>>)]_vars
    /\ [][\A s \in Devs :
            (~RegistryLive /\ Spawned(s) /\ wpc'[s] # wpc[s]) => wpc'[s] = "exit"]_vars
    /\ [][\A s \in Devs :
            (Spawned(s) /\ ~Alive(s) /\ wpc'[s] # wpc[s])
               => (wpc'[s] = "exit" /\ UNCHANGED busVars)]_vars

\* C26: whenever an observer is told display_left(addr), it was told
\* display_arrived(addr) before, with no display_left(addr) since.
C26_LeftFollowsArrived ==
    \A i \in 1..Len(notified) :
        notified[i].kind = "left" => notified[i].addr \in seen[notified[i].h]

====
